---- MODULE Spec2Model ----
(***************************************************************************)
(* Model of x-crawler: the seen-tweets store (storage.go), the crawl       *)
(* cycle (crawler.Run, processTrader, processKeyword) and the process      *)
(* life cycle of main (startup, eager crawl, ticker loop, shutdown).       *)
(* Tweet identifiers are the integers 1..MaxID; the Twitter, Claude and    *)
(* Slack calls are collaborators whose results are chosen                  *)
(* nondeterministically.                                                   *)
(***************************************************************************)
EXTENDS Integers, Sequences, FiniteSets, TLC

\* ---------------------------------------------------------------- bounds
MaxID == 2
MaxFetch == 2
NumTraders == 1
NumKeywords == 1
NumThreads == 2

\* ------------------------------------------------------ program constants
DefaultMinScore == 70

IDs == 1..MaxID
NumTargets == NumTraders + NumKeywords
\* min_score values written in config.yaml, and scores the model returns
RawMinScores == {0, 50}
Scores == {49, 50, 69, 70}

\* how many tweets a fetch can return (the code asks for at most 10)
FetchLens == 0..MaxFetch

\* ------------------------------------------------------------ storage.go
\* map[string]bool: nil-ness, the keys holding true, the keys holding false
EmptyMap == [nil |-> FALSE, t |-> {}, f |-> {}]
NilMap == [nil |-> TRUE, t |-> {}, f |-> {}]

\* file content: missing, garbage (not JSON of the expected shape, e.g. a
\* truncated write), the JSON value null, or a JSON object of booleans
FileMissing == [kind |-> "missing", entries |-> <<>>]
FileGarbage == [kind |-> "garbage", entries |-> <<>>]
FileNull == [kind |-> "null", entries |-> <<>>]
FileObject(es) == [kind |-> "object", entries |-> es]

HasAlwaysFalse(st, id) == FALSE
Has(st, id) == id \in st.t

AddNothing(st, id) == st
AddReplaces(st, id) == [st EXCEPT !.t = {id}, !.f = {}]
Add(st, id) == [st EXCEPT !.t = @ \cup {id}, !.f = @ \ {id}]

Count(st) == Cardinality(st.t \cup st.f)

Keys(st) == st.t \cup st.f

RECURSIVE SortedKeys(_)
SortedKeys(S) ==
  IF S = {} THEN <<>>
  ELSE LET m == CHOOSE x \in S : \A y \in S : x <= y
       IN <<m>> \o SortedKeys(S \ {m})

\* json.MarshalIndent of the map: null for a nil map, else the entries in
\* key order
MarshalDropsLast(st) ==
  IF st.nil THEN FileNull
  ELSE LET ks == SortedKeys(Keys(st))
           n == IF Len(ks) > 1 THEN Len(ks) - 1 ELSE Len(ks)
       IN FileObject([i \in 1..n |-> <<ks[i], ks[i] \in st.t>>])
Marshal(st) ==
  IF st.nil THEN FileNull
  ELSE LET ks == SortedKeys(Keys(st))
       IN FileObject([i \in 1..Len(ks) |-> <<ks[i], ks[i] \in st.t>>])

RECURSIVE StoreEntries(_, _)
StoreEntries(st, es) ==
  IF es = <<>> THEN st
  ELSE LET k == Head(es)[1]
           v == Head(es)[2]
           st1 == IF v THEN [st EXCEPT !.t = @ \cup {k}, !.f = @ \ {k}]
                  ELSE [st EXCEPT !.f = @ \cup {k}, !.t = @ \ {k}]
       IN StoreEntries(st1, Tail(es))

\* json.Unmarshal(data, &st.tweets): an error for malformed data, the nil
\* map for null, else every entry stored into the existing map
Unmarshal(data, st) ==
  CASE data.kind = "garbage" -> [err |-> TRUE, m |-> st]
    [] data.kind = "null" -> [err |-> FALSE, m |-> NilMap]
    [] OTHER -> [err |-> FALSE, m |-> StoreEntries([st EXCEPT !.nil = FALSE], data.entries)]

\* SeenTweets.Load on an existing file
LoadIgnoresError(data, st) == [err |-> FALSE, m |-> Unmarshal(data, st).m]
Load(data, st) == Unmarshal(data, st)

\* NewSeenTweets: the empty map, loaded from the file when it exists
NewSeenTweetsNoLoad(data) == [err |-> FALSE, m |-> EmptyMap]
NewSeenTweets(data) ==
  IF data.kind = "missing" THEN [err |-> FALSE, m |-> EmptyMap]
  ELSE Load(data, EmptyMap)

\* SeenTweets.Save: what os.WriteFile leaves on disk. ok: the marshalled
\* map; failure: the old content (open failed) or a truncated file
SaveResultsIgnoresWriteError(st, data) ==
  {[ok |-> TRUE, data |-> Marshal(st)],
   [ok |-> TRUE, data |-> data],
   [ok |-> TRUE, data |-> FileGarbage]}
SaveResults(st, data) ==
  {[ok |-> TRUE, data |-> Marshal(st)],
   [ok |-> FALSE, data |-> data],
   [ok |-> FALSE, data |-> FileGarbage]}

\* ------------------------------------------------------------ config.Load
\* the min_score default: a zero (or absent) value becomes DefaultMinScore
ConfigLoad(e) ==
  [Enabled |-> e.enabled,
   MinScore |-> IF e.min_score = 0 THEN DefaultMinScore ELSE e.min_score]

\* main: the AI filter exists only when enabled and ANTHROPIC_API_KEY is set
NewAIFilterAlways(cfg, apiKey) == TRUE
NewAIFilter(cfg, apiKey) == cfg.Enabled /\ apiKey

\* ------------------------------------------------- crawler: one loop pass
\* What one pass of the tweet loop does with tweet id, given the result of
\* the Analyze call (an) and of the Slack call (dl), should they be made:
\*   has     Has(id) was true: the tweet is skipped
\*   counted processed++ ran
\*   scored  "none" | "ok" | "err": the Analyze call and its result
\*   mode    "none" | "rich" (NotifyTweet) | "plain" (NotifySimple)
\*   ok      the notification call returned nil
\*   add     seenTweets.Add(id) ran
\*   slept   the 500 ms sleep at the end of the pass ran
Outcome(has, counted, scored, score, mode, ok, add, slept) ==
  [has |-> has, counted |-> counted, scored |-> scored, score |-> score,
   mode |-> mode, ok |-> ok, add |-> add, slept |-> slept]

\* Has(id) is true: continue, before processed++
SkippedCounted == Outcome(TRUE, TRUE, "none", 0, "none", FALSE, FALSE, FALSE)
Skipped == Outcome(TRUE, FALSE, "none", 0, "none", FALSE, FALSE, FALSE)
\* after a notification call: on success Add, notified++ and the sleep; on
\* failure nothing more (continue)
NotifiedMarksOnFailure(scored, score, mode, dl) ==
  Outcome(FALSE, TRUE, scored, score, mode, dl, TRUE, dl)
Notified(scored, score, mode, dl) ==
  Outcome(FALSE, TRUE, scored, score, mode, dl, dl, dl)
\* the score is below MinScore: Add and continue
TooLow(score) ==
  Outcome(FALSE, TRUE, "ok", score, "none", FALSE, TRUE, FALSE)

processTraderStrictGate(st, id, aiFilter, MinScore, an, dl) ==
  IF Has(st, id) THEN Skipped
  ELSE IF aiFilter
       THEN IF an.err THEN Notified("err", 0, "plain", dl)
            ELSE IF an.score <= MinScore THEN TooLow(an.score)
                 ELSE Notified("ok", an.score, "rich", dl)
       ELSE Notified("none", 0, "plain", dl)
processTraderTweet(st, id, aiFilter, MinScore, an, dl) ==
  IF Has(st, id) THEN Skipped
  ELSE IF aiFilter
       THEN IF an.err THEN Notified("err", 0, "plain", dl)
            ELSE IF an.score < MinScore THEN TooLow(an.score)
                 ELSE Notified("ok", an.score, "rich", dl)
       ELSE Notified("none", 0, "plain", dl)

processKeywordDropsOnError(st, id, aiFilter, MinScore, an, dl) ==
  IF Has(st, id) THEN Skipped
  ELSE IF aiFilter
       THEN IF an.err
            THEN Outcome(FALSE, TRUE, "err", 0, "none", FALSE, FALSE, FALSE)
            ELSE IF an.score < MinScore THEN TooLow(an.score)
                 ELSE Notified("ok", an.score, "rich", dl)
       ELSE Notified("none", 0, "plain", dl)
processKeywordMarksOnError(st, id, aiFilter, MinScore, an, dl) ==
  IF Has(st, id) THEN Skipped
  ELSE IF aiFilter
       THEN IF an.err
            THEN Outcome(FALSE, TRUE, "err", 0, "none", FALSE, TRUE, FALSE)
            ELSE IF an.score < MinScore THEN TooLow(an.score)
                 ELSE Notified("ok", an.score, "rich", dl)
       ELSE Notified("none", 0, "plain", dl)
processKeywordTweet(st, id, aiFilter, MinScore, an, dl) ==
  IF Has(st, id) THEN Skipped
  ELSE IF aiFilter
       THEN IF an.err THEN Notified("err", 0, "plain", dl)
            ELSE IF an.score < MinScore THEN TooLow(an.score)
                 ELSE Notified("ok", an.score, "rich", dl)
       ELSE Notified("none", 0, "plain", dl)

AnalysisResults ==
  {[err |-> TRUE, score |-> 0]} \cup {[err |-> FALSE, score |-> s] : s \in Scores}

\* ------------------------------------------------------------------ state
VARIABLES
  file,            \* content of the seen-tweets file on disk
  env,             \* config.yaml (ai.enabled, ai.min_score) and ANTHROPIC_API_KEY
  tweets,          \* SeenTweets.tweets of the running process
  crawler,         \* Crawler fields set at startup: MinScore, aiFilter (non-nil)
  pc,              \* where main is: boot, fetch, tweets, save, idle, exited, fatal, killed
  ctx,             \* context of the running cycle: none, background, timed, expired
  tgt,             \* index of the target being processed (traders, then keywords)
  fetched,         \* len(tweets): how many tweets the fetch returned; the id of
                   \* each is chosen when the loop reads it
  pos,             \* index in tweets of the next tweet
  processed,       \* processTrader/processKeyword: processed
  notified,        \* processTrader/processKeyword: notified
  totalProcessed,  \* Run: totalProcessed
  totalNotified,   \* Run: totalNotified
  sigPending,      \* a signal is buffered in sigChan
  ev,              \* the last step taken and what it did
  delivered,       \* history: ids with a successful notification in this process
  failed,          \* history: ids with a failed notification in this process
  low,             \* history: ids dropped by the score gate in this process
  persisted,       \* history: ids added by Add and then written by a successful Save
  visited,         \* history: the targets fetched in this cycle, by result (ok, err)
  saves,           \* history: Save attempts made by the running cycle
  tickPending,     \* a tick is buffered in ticker.C
  thr,             \* the callers of the store, when it is used by several threads
  cyc              \* history: in this cycle, the tweets found not seen (new) and
                   \* the notifications that succeeded (ok); in this target's
                   \* loop, the last notification call was not followed by
                   \* the 500 ms sleep (unslept)

vars == <<file, env, tweets, crawler, pc, ctx, tgt, fetched, pos, processed,
          notified, totalProcessed, totalNotified, sigPending, ev, delivered,
          failed, low, persisted, visited, saves, tickPending, cyc, thr>>

NoEv ==
  [kind |-> "none", tgt |-> 0, id |-> 0, r |-> Skipped, ok |-> FALSE,
   att |-> 0, np |-> 0, nn |-> 0, cnt |-> 0]
Ev(kind) == [NoEv EXCEPT !.kind = kind]

\* the configurations: min_score is varied where a filter is built
Envs ==
  {e \in [enabled : BOOLEAN, min_score : RawMinScores, apiKey : BOOLEAN] :
     (e.enabled /\ e.apiKey) \/ e.min_score = 0}

NoneVisited == [ok |-> {}, err |-> {}]
NoneCounted == [new |-> 0, ok |-> 0, unslept |-> FALSE]

\* the threads that may call the store, and a thread that is in no call
Threads == 1..NumThreads
NotCalling == [pc |-> "idle", op |-> "none", id |-> 0, res |-> <<>>, vals |-> {}]
NoCallers == [t \in Threads |-> NotCalling]
Visited == visited.ok \cup visited.err

IsTrader(i) == i \in 1..NumTraders
IsKeyword(i) == i \in (NumTraders + 1)..NumTargets
InCycle == pc \in {"fetch", "tweets", "save"}
Running == pc \in {"boot", "fetch", "tweets", "save", "idle"}
\* signal.Notify runs after the initial crawl
HandlerInstalled == pc = "idle" \/ (InCycle /\ ctx # "background")

\* every file content the program can be started on: no file, a cut-off
\* file, null, or an object with any boolean for any set of ids
AnyFiles ==
  {FileMissing, FileGarbage, FileNull} \cup
  {FileObject([i \in 1..Cardinality(K) |-> <<SortedKeys(K)[i], v[SortedKeys(K)[i]]>>]) :
     <<K, v>> \in UNION {{<<K0, v0>> : v0 \in [K0 -> BOOLEAN]} : K0 \in SUBSET IDs}}

\* the program has not been started yet
NotStarted ==
  /\ env \in Envs
  /\ tweets = EmptyMap
  /\ crawler = [MinScore |-> 0, aiFilter |-> FALSE]
  /\ pc = "boot"
  /\ ctx = "none"
  /\ tgt = 0
  /\ fetched = 0
  /\ pos = 0
  /\ processed = 0
  /\ notified = 0
  /\ totalProcessed = 0
  /\ totalNotified = 0
  /\ sigPending = FALSE
  /\ ev = NoEv
  /\ delivered = {}
  /\ failed = {}
  /\ low = {}
  /\ persisted = {}
  /\ visited = NoneVisited
  /\ saves = 0
  /\ tickPending = FALSE
  /\ cyc = NoneCounted
  /\ thr = NoCallers

\* the first start, on a path where no file exists yet
Init ==
  /\ file = FileMissing
  /\ NotStarted

\* a start on any file, such as one written by hand or by another program
InitAnyFile ==
  /\ file \in AnyFiles
  /\ NotStarted

\* Run's entry: the counters are zero and the first target is next
BeginRun(c) ==
  /\ ctx' = c
  /\ tgt' = 1
  /\ pc' = IF NumTargets = 0 THEN "save" ELSE "fetch"
  /\ fetched' = 0
  /\ pos' = 0
  /\ processed' = 0
  /\ notified' = 0
  /\ totalProcessed' = 0
  /\ totalNotified' = 0
  /\ visited' = NoneVisited
  /\ saves' = 0
  /\ cyc' = NoneCounted

\* main up to the initial crawl: NewSeenTweets succeeds, the filter is
\* created, Run(context.Background()) starts
Startup ==
  /\ pc = "boot"
  /\ LET n == NewSeenTweets(file)
         cfg == ConfigLoad(env)
     IN /\ ~n.err
        /\ tweets' = n.m
        /\ crawler' = [MinScore |-> cfg.MinScore,
                       aiFilter |-> NewAIFilter(cfg, env.apiKey)]
  /\ BeginRun("background")
  /\ ev' = [Ev("boot") EXCEPT !.cnt = Count(tweets')]
  /\ UNCHANGED <<file, env, sigPending, tickPending, delivered, failed, low,
                 persisted, thr>>

\* main: NewSeenTweets returns an error, log.Fatalf
StartupFatal ==
  /\ pc = "boot"
  /\ NewSeenTweets(file).err
  /\ pc' = "fatal"
  /\ ev' = Ev("fatal")
  /\ UNCHANGED <<file, env, tweets, crawler, ctx, tgt, fetched, pos, processed,
                 notified, totalProcessed, totalNotified, sigPending, delivered,
                 failed, low, persisted, visited, saves, tickPending, cyc, thr>>

\* Run: the end of one target's iteration; p, n are what processTrader or
\* processKeyword returned (added to the totals only when err is nil)
NextTarget(p, n) ==
  /\ totalProcessed' = totalProcessed + p
  /\ totalNotified' = totalNotified + n
  /\ processed' = 0
  /\ notified' = 0
  /\ fetched' = 0
  /\ pos' = 0
  /\ tgt' = tgt + 1
  /\ pc' = IF tgt = NumTargets THEN "save" ELSE "fetch"

\* (a Run that returns at the first failed target instead of continuing)
NextTargetAbortsRun(p, n) ==
  /\ totalProcessed' = totalProcessed + p
  /\ totalNotified' = totalNotified + n
  /\ processed' = 0
  /\ notified' = 0
  /\ fetched' = 0
  /\ pos' = 0
  /\ tgt' = tgt + 1
  /\ pc' = "save"

\* the fetch at the top of processTrader/processKeyword fails: return 0, 0, err
\* and Run continues with the next target
FetchErrAborts ==
  /\ pc = "fetch"
  /\ visited' = [visited EXCEPT !.err = @ \cup {tgt}]
  /\ ev' = [Ev("fetch_err") EXCEPT !.tgt = tgt]
  /\ NextTargetAbortsRun(0, 0)
  /\ UNCHANGED <<file, env, tweets, crawler, ctx, sigPending, delivered, failed,
                 low, persisted, saves, tickPending, cyc, thr>>
FetchErr ==
  /\ pc = "fetch"
  /\ visited' = [visited EXCEPT !.err = @ \cup {tgt}]
  /\ ev' = [Ev("fetch_err") EXCEPT !.tgt = tgt]
  /\ NextTarget(0, 0)
  /\ UNCHANGED <<file, env, tweets, crawler, ctx, sigPending, delivered, failed,
                 low, persisted, saves, tickPending, cyc, thr>>

\* the fetch succeeds with l tweets; an empty result ends the target
FetchOK(l) ==
  /\ pc = "fetch"
  /\ ctx # "expired"
  /\ visited' = [visited EXCEPT !.ok = @ \cup {tgt}]
  /\ ev' = [Ev("fetch_ok") EXCEPT !.tgt = tgt]
  /\ IF l = 0
     THEN NextTarget(0, 0)
     ELSE /\ fetched' = l
          /\ pos' = 1
          /\ pc' = "tweets"
          /\ processed' = 0
          /\ notified' = 0
          /\ UNCHANGED <<tgt, totalProcessed, totalNotified>>
  /\ UNCHANGED <<file, env, tweets, crawler, ctx, sigPending, delivered, failed,
                 low, persisted, saves, tickPending, cyc, thr>>

\* one pass of the tweet loop, on tweet id with outcome r; Add on a nil map
\* panics and the process dies where it stands
TweetStep(id, r) ==
  LET p == processed + (IF r.counted THEN 1 ELSE 0)
      n == notified + (IF r.mode # "none" /\ r.ok THEN 1 ELSE 0)
      panics == r.add /\ tweets.nil
  IN /\ tweets' = IF r.add /\ ~panics THEN Add(tweets, id) ELSE tweets
     /\ ev' = [Ev(IF panics THEN "panic" ELSE "tweet") EXCEPT
                 !.tgt = tgt, !.id = id, !.r = r]
     /\ delivered' = IF r.mode # "none" /\ r.ok THEN delivered \cup {id} ELSE delivered
     /\ failed' = IF r.mode # "none" /\ ~r.ok THEN failed \cup {id} ELSE failed
     /\ low' = IF r.scored = "ok" /\ r.mode = "none" THEN low \cup {id} ELSE low
     /\ cyc' = [new |-> cyc.new + (IF r.has THEN 0 ELSE 1),
                ok |-> cyc.ok + (IF r.mode # "none" /\ r.ok THEN 1 ELSE 0),
                unslept |-> IF pos = fetched THEN FALSE
                            ELSE IF r.mode # "none" THEN ~r.slept
                            ELSE cyc.unslept]
     /\ IF panics
        THEN /\ pc' = "killed"
             /\ UNCHANGED <<tgt, fetched, pos, processed, notified,
                            totalProcessed, totalNotified>>
        ELSE IF pos = fetched
             THEN NextTarget(p, n)
             ELSE /\ pos' = pos + 1
                  /\ processed' = p
                  /\ notified' = n
                  /\ UNCHANGED <<pc, tgt, fetched, totalProcessed, totalNotified>>
     /\ UNCHANGED <<file, env, crawler, ctx, sigPending, persisted, visited, saves,
                    tickPending, thr>>

\* results the collaborators can give: none succeeds once ctx has expired
AnalyzeResults == IF ctx = "expired" THEN {[err |-> TRUE, score |-> 0]} ELSE AnalysisResults
NotifyResultsIgnoreCtx == BOOLEAN
NotifyResults == IF ctx = "expired" THEN {FALSE} ELSE BOOLEAN

GetUserTweetsErr == IsTrader(tgt) /\ FetchErr
GetUserTweetsOK == IsTrader(tgt) /\ \E l \in FetchLens : FetchOK(l)
TraderTweet ==
  /\ pc = "tweets"
  /\ IsTrader(tgt)
  /\ \E id \in IDs, an \in AnalyzeResults, dl \in NotifyResults :
       TweetStep(id, processTraderTweet(tweets, id, crawler.aiFilter,
                                        crawler.MinScore, an, dl))

SearchTweetsErr == IsKeyword(tgt) /\ FetchErr
SearchTweetsOK == IsKeyword(tgt) /\ \E l \in FetchLens : FetchOK(l)
KeywordTweet ==
  /\ pc = "tweets"
  /\ IsKeyword(tgt)
  /\ \E id \in IDs, an \in AnalyzeResults, dl \in NotifyResults :
       TweetStep(id, processKeywordTweet(tweets, id, crawler.aiFilter,
                                         crawler.MinScore, an, dl))

\* the 5 minute deadline of a scheduled crawl passes
Deadline ==
  /\ InCycle
  /\ ctx = "timed"
  /\ ctx' = "expired"
  /\ ev' = Ev("deadline")
  /\ UNCHANGED <<file, env, tweets, crawler, pc, tgt, fetched, pos, processed,
                 notified, totalProcessed, totalNotified, sigPending, delivered,
                 failed, low, persisted, visited, saves, tickPending, cyc, thr>>

\* Run: the Save after the two loops, the log line, return nil
RunSaveFatalOnError ==
  /\ pc = "save"
  /\ \E s \in SaveResults(tweets, file) :
       /\ file' = s.data
       /\ persisted' = IF s.ok THEN persisted \cup delivered \cup low ELSE persisted
       /\ saves' = saves + 1
       /\ ev' = [Ev("run_end") EXCEPT !.ok = s.ok, !.att = 1, !.np = totalProcessed,
                                      !.nn = totalNotified, !.cnt = Count(tweets)]
       /\ pc' = IF s.ok THEN "idle" ELSE "fatal"
  /\ ctx' = "none"
  /\ tgt' = 0
  /\ totalProcessed' = 0
  /\ totalNotified' = 0
  /\ UNCHANGED <<env, tweets, crawler, fetched, pos, processed, notified,
                 sigPending, delivered, failed, low, visited, tickPending, cyc, thr>>
RunSaveSkippedWhenIdle ==
  /\ pc = "save"
  /\ \E s \in SaveResults(tweets, file) :
       /\ file' = IF totalProcessed = 0 THEN file ELSE s.data
       /\ persisted' = persisted
       /\ saves' = IF totalProcessed = 0 THEN saves ELSE saves + 1
       /\ ev' = [Ev("run_end") EXCEPT !.ok = s.ok, !.att = 1, !.np = totalProcessed,
                                      !.nn = totalNotified, !.cnt = Count(tweets)]
  /\ pc' = "idle"
  /\ ctx' = "none"
  /\ tgt' = 0
  /\ totalProcessed' = 0
  /\ totalNotified' = 0
  /\ UNCHANGED <<env, tweets, crawler, fetched, pos, processed, notified,
                 sigPending, delivered, failed, low, visited, tickPending, cyc, thr>>
RunSave ==
  /\ pc = "save"
  /\ \E s \in SaveResults(tweets, file) :
       /\ file' = s.data
       /\ persisted' = IF s.ok THEN persisted \cup delivered \cup low ELSE persisted
       /\ saves' = saves + 1
       /\ ev' = [Ev("run_end") EXCEPT !.ok = s.ok, !.att = 1, !.np = totalProcessed,
                                      !.nn = totalNotified, !.cnt = Count(tweets)]
  /\ pc' = "idle"
  /\ ctx' = "none"
  /\ tgt' = 0
  /\ totalProcessed' = 0
  /\ totalNotified' = 0
  /\ UNCHANGED <<env, tweets, crawler, fetched, pos, processed, notified,
                 sigPending, delivered, failed, low, visited, tickPending, cyc, thr>>

\* the ticker (created after the initial crawl) fires: the tick is buffered
\* in ticker.C (capacity 1), or dropped when one is buffered already
TickArrives ==
  /\ HandlerInstalled
  /\ ~tickPending
  /\ tickPending' = TRUE
  /\ ev' = Ev("ticked")
  /\ UNCHANGED <<file, env, tweets, crawler, pc, ctx, tgt, fetched, pos,
                 processed, notified, totalProcessed, totalNotified, sigPending,
                 delivered, failed, low, persisted, visited, saves, cyc, thr>>

\* main's select receives the tick: Run starts with a 5 minute timeout
TickWhileRunning ==
  /\ pc \in {"fetch", "tweets", "save", "idle"}
  /\ tickPending
  /\ tickPending' = FALSE
  /\ BeginRun("timed")
  /\ ev' = Ev("tick")
  /\ UNCHANGED <<file, env, tweets, crawler, sigPending, delivered, failed, low,
                 persisted, thr>>
Tick ==
  /\ pc = "idle"
  /\ tickPending
  /\ tickPending' = FALSE
  /\ BeginRun("timed")
  /\ ev' = Ev("tick")
  /\ UNCHANGED <<file, env, tweets, crawler, sigPending, delivered, failed, low,
                 persisted, thr>>

\* SIGINT/SIGTERM after signal.Notify: buffered in sigChan (capacity 1)
SignalNotify ==
  /\ HandlerInstalled
  /\ ~sigPending
  /\ sigPending' = TRUE
  /\ ev' = Ev("signal")
  /\ UNCHANGED <<file, env, tweets, crawler, pc, ctx, tgt, fetched, pos,
                 processed, notified, totalProcessed, totalNotified, delivered,
                 failed, low, persisted, visited, saves, tickPending, cyc, thr>>

\* the process is gone: its memory no longer exists
ProcessGone ==
  /\ tweets' = EmptyMap
  /\ crawler' = [MinScore |-> 0, aiFilter |-> FALSE]
  /\ ctx' = "none"
  /\ tgt' = 0
  /\ fetched' = 0
  /\ pos' = 0
  /\ processed' = 0
  /\ notified' = 0
  /\ totalProcessed' = 0
  /\ totalNotified' = 0
  /\ sigPending' = FALSE
  /\ tickPending' = FALSE

\* the process dies without running any more code: SIGKILL, power loss
\* (outside Save's write, which CrashInSave covers)
Crash ==
  /\ Running
  /\ pc' = "killed"
  /\ ProcessGone
  /\ ev' = Ev("crash")
  /\ UNCHANGED <<file, env, delivered, failed, low, persisted, visited, saves, cyc, thr>>

\* SIGINT/SIGTERM while no handler is installed (signal.Notify comes after
\* the initial crawl): the default disposition ends the process at once
SignalDefault ==
  /\ Running
  /\ ~HandlerInstalled
  /\ pc' = "killed"
  /\ ProcessGone
  /\ ev' = Ev("sigdefault")
  /\ UNCHANGED <<file, env, delivered, failed, low, persisted, visited, saves, cyc, thr>>

\* the process dies inside Save, after os.WriteFile truncated the file and
\* before it wrote all of the data
CrashInSave ==
  /\ pc = "save" \/ (pc = "idle" /\ sigPending)
  /\ file' = FileGarbage
  /\ pc' = "killed"
  /\ ProcessGone
  /\ ev' = Ev("crash_save")
  /\ UNCHANGED <<env, delivered, failed, low, persisted, visited, saves, cyc, thr>>

\* main's select: a signal is received, Save, return
Shutdown ==
  /\ pc = "idle"
  /\ sigPending
  /\ \E s \in SaveResults(tweets, file) :
       /\ file' = s.data
       /\ persisted' = IF s.ok THEN persisted \cup delivered \cup low ELSE persisted
       /\ ev' = [Ev("shutdown") EXCEPT !.ok = s.ok, !.att = 1, !.cnt = Count(tweets)]
  /\ pc' = "exited"
  /\ ProcessGone
  /\ UNCHANGED <<env, delivered, failed, low, visited, saves, cyc, thr>>

\* the program is started again on the same file and configuration
Restart ==
  /\ pc \in {"exited", "fatal", "killed"}
  /\ pc' = "boot"
  /\ delivered' = {}
  /\ failed' = {}
  /\ low' = {}
  /\ visited' = NoneVisited
  /\ saves' = 0
  /\ cyc' = NoneCounted
  /\ ev' = Ev("restart")
  /\ UNCHANGED <<file, env, tweets, crawler, ctx, tgt, fetched, pos, processed,
                 notified, totalProcessed, totalNotified, sigPending, tickPending,
                 persisted, thr>>

Next ==
  \/ Startup
  \/ StartupFatal
  \/ GetUserTweetsErr
  \/ GetUserTweetsOK
  \/ TraderTweet
  \/ SearchTweetsErr
  \/ SearchTweetsOK
  \/ KeywordTweet
  \/ Deadline
  \/ RunSave
  \/ TickArrives
  \/ Tick
  \/ SignalNotify
  \/ Crash
  \/ SignalDefault
  \/ CrashInSave
  \/ Shutdown
  \/ Restart

Spec == Init /\ [][Next]_vars
SpecAnyFile == InitAnyFile /\ [][Next]_vars

\* ------------------------------------- SeenTweets called by several threads
\* A call of Has, Add, Count or Save by thread t goes through: called (before
\* mu.Lock/mu.RLock), locked (the lock is held), accessed (the map was read
\* or written, the deferred unlock has not run yet), and back to idle at the
\* return. vals collects, for a call of Has, every value that Has of its id
\* had at some point since the call.
StoreOps == {"Has", "Add", "Count", "Save"}
Holds(t) == thr[t].pc \in {"locked", "accessed"}
HoldsWrite(t) == Holds(t) /\ thr[t].op = "Add"

\* sync.RWMutex: Lock waits for every holder, RLock for the writer
LockAsReader(t) == \A u \in Threads \ {t} : ~HoldsWrite(u)
CanLock(t) ==
  IF thr[t].op = "Add" THEN \A u \in Threads \ {t} : ~Holds(u)
  ELSE \A u \in Threads \ {t} : ~HoldsWrite(u)

\* the variables a call of the store leaves alone
notStore == <<env, crawler, pc, ctx, tgt, fetched, pos, processed, notified,
              totalProcessed, totalNotified, sigPending, ev, delivered, failed,
              low, persisted, visited, saves, tickPending, cyc>>

StoreCall(t, op, id) ==
  /\ thr[t].pc = "idle"
  /\ thr' = [thr EXCEPT ![t] =
               [pc |-> "called", op |-> op, id |-> id, res |-> <<>>,
                vals |-> IF op = "Has" THEN {Has(tweets, id)} ELSE {}]]
  /\ UNCHANGED <<file, tweets, notStore>>

StoreLock(t) ==
  /\ thr[t].pc = "called"
  /\ CanLock(t)
  /\ thr' = [thr EXCEPT ![t].pc = "locked"]
  /\ UNCHANGED <<file, tweets, notStore>>

\* the body of the method, under the lock
StoreAccess(t) ==
  /\ thr[t].pc = "locked"
  /\ LET c == thr[t]
         m == IF c.op = "Add" THEN Add(tweets, c.id) ELSE tweets
         r == CASE c.op = "Has" -> <<Has(tweets, c.id)>>
                [] c.op = "Count" -> <<Count(tweets)>>
                [] OTHER -> <<>>
     IN /\ tweets' = m
        /\ file' = IF c.op = "Save" THEN Marshal(tweets) ELSE file
        /\ thr' = [u \in Threads |->
                     IF u = t THEN [c EXCEPT !.pc = "accessed", !.res = r]
                     ELSE IF thr[u].op = "Has" /\ thr[u].pc # "idle"
                          THEN [thr[u] EXCEPT !.vals = @ \cup {Has(m, thr[u].id)}]
                          ELSE thr[u]]
  /\ UNCHANGED notStore

\* the deferred unlock and the return
StoreReturn(t) ==
  /\ thr[t].pc = "accessed"
  /\ thr' = [thr EXCEPT ![t] = NotCalling]
  /\ UNCHANGED <<file, tweets, notStore>>

InitStore ==
  /\ file = FileMissing
  /\ NotStarted

NextStore ==
  \/ \E t \in Threads, op \in StoreOps, id \in IDs : StoreCall(t, op, id)
  \/ \E t \in Threads : StoreLock(t)
  \/ \E t \in Threads : StoreAccess(t)
  \/ \E t \in Threads : StoreReturn(t)

SpecStore == InitStore /\ [][NextStore]_vars

\* ------------------------------------------------ slack.go: the rich message
\* the values the filter's JSON can carry in urgency and sentiment: the ones
\* the prompt asks for, the empty string (field absent) and others
Urgencies == {"critical", "high", "normal", "low", "", "CRITICAL", "urgent", "medium"}
Sentiments == {"bullish", "bearish", "neutral", "", "Bullish", "mixed", "positive"}

\* emoji are written by their names, colors as in the source
getEmojiByUrgency(urgency) ==
  CASE urgency = "critical" -> ":rotating_light:"
    [] urgency = "high" -> ":warning:"
    [] urgency = "normal" -> ":bulb:"
    [] urgency = "low" -> ":information_source:"
    [] OTHER -> ":bulb:"

getColorByUrgencyDefaultGray(urgency) ==
  CASE urgency = "critical" -> "#FF0000"
    [] urgency = "high" -> "#FF9900"
    [] urgency = "normal" -> "#36A64F"
    [] OTHER -> "#808080"
getColorByUrgency(urgency) ==
  CASE urgency = "critical" -> "#FF0000"
    [] urgency = "high" -> "#FF9900"
    [] urgency = "normal" -> "#36A64F"
    [] urgency = "low" -> "#808080"
    [] OTHER -> "#36A64F"

getSentimentEmoji(sentiment) ==
  CASE sentiment = "bullish" -> ":chart_up: bullish"
    [] sentiment = "bearish" -> ":chart_down: bearish"
    [] sentiment = "neutral" -> ":arrow_right: neutral"
    [] OTHER -> ":question: unknown"

\* buildMessage: the parts of the attachment that come from the analysis
buildMessage(analysis) ==
  [kind |-> "message",
   urgency |-> analysis.Urgency,
   sentiment |-> analysis.Sentiment,
   color |-> getColorByUrgency(analysis.Urgency),
   emoji |-> getEmojiByUrgency(analysis.Urgency),
   score |-> analysis.Score,
   fields |-> IF analysis.Sentiment # ""
              THEN <<"summary", getSentimentEmoji(analysis.Sentiment)>>
              ELSE <<"summary">>,
   sentimentEmoji |-> getSentimentEmoji(analysis.Sentiment)]

\* NotifyTweet builds the message for one analysis
NotifyTweetBuild(analysis) ==
  /\ ev' = buildMessage(analysis)
  /\ UNCHANGED <<file, env, tweets, crawler, pc, ctx, tgt, fetched, pos,
                 processed, notified, totalProcessed, totalNotified, sigPending,
                 delivered, failed, low, persisted, visited, saves, tickPending,
                 cyc, thr>>

InitSlack ==
  /\ file = FileMissing
  /\ NotStarted

NextSlack ==
  \E u \in Urgencies, s \in Sentiments, sc \in Scores :
    NotifyTweetBuild([Urgency |-> u, Sentiment |-> s, Score |-> sc])

SpecSlack == InitSlack /\ [][NextSlack]_vars

\* ----------------------------------------------------------------- claims
AllTargets == 1..NumTargets
Attempted(e) == e.r.mode # "none"
FilterConfigured == env.enabled /\ env.apiKey

\* C1: within one process at most one notification of a tweet id succeeds:
\* a step that delivers id successfully starts where id was not yet
\* delivered, whichever target or cycle fetched it.
C1_NoDoubleNotification ==
  [][(ev'.kind = "tweet" /\ Attempted(ev') /\ ev'.r.ok) => ev'.id \notin delivered]_vars

\* the same tweet is fetched again after its delivery and is skipped
C1_Witness == ev.kind = "tweet" /\ ev.r.has /\ ev.id \in delivered

\* C2 as stated: every tweet that is not skipped ends its loop pass in the
\* seen set, on every branch.
C2_AlwaysMarkedSeen == (ev.kind = "tweet" /\ ~ev.r.has) => Has(tweets, ev.id)

\* C2 amended: a tweet that is not skipped ends its pass in the seen set
\* exactly when it was dropped by the score gate or its notification
\* succeeded; after a failed notification (rich, plain or fallback) it is
\* not in the seen set.
C2_MarkedSeenUnlessDeliveryFailed ==
  (ev.kind = "tweet" /\ ~ev.r.has) =>
    (Has(tweets, ev.id) <=> ~(Attempted(ev) /\ ~ev.r.ok))

C2_Witness == ev.kind = "tweet" /\ Attempted(ev) /\ ~ev.r.ok /\ ~Has(tweets, ev.id)

\* C3 as stated: at most one notification attempt is ever made for a tweet id.
C3_NeverRetried ==
  [][(ev'.kind = "tweet" /\ Attempted(ev')) => ev'.id \notin (delivered \cup failed)]_vars

\* C3 amended: no notification is attempted for an id that was already
\* delivered or dropped by the score gate in this process, and an id whose
\* notifications have all failed is not skipped when it is fetched again.
C3_RetriedUntilDelivered ==
  [][ev'.kind = "tweet" =>
       /\ Attempted(ev') => ev'.id \notin (delivered \cup low)
       /\ ev'.id \in failed \ (delivered \cup low) => ~ev'.r.has]_vars

\* a notification succeeds for an id whose earlier notification failed
C3_Witness ==
  ev.kind = "tweet" /\ Attempted(ev) /\ ev.r.ok /\ ev.id \in failed

\* C4: a tweet id that was added to the seen set and then written by a
\* successful Save is skipped whenever it is fetched again, by the same
\* process or by a later one: no Analyze call, no notification, not counted.
C4_PersistedIsSkipped ==
  (ev.kind = "tweet" /\ ev.id \in persisted) => ev.r = Skipped

\* a later process, which neither delivered nor dropped the id, skips it
C4_Witness ==
  ev.kind = "tweet" /\ ev.id \in persisted /\ ev.id \notin (delivered \cup low)

\* C5: when Analyze succeeds, a score >= MinScore (equality included) leads
\* to a rich notification attempt and a lower score to none, with the id in
\* the seen set; Analyze is never called for an id already dropped by the gate.
C5_ThresholdGateExact ==
  [][ev'.kind = "tweet" =>
       /\ ev'.r.scored # "none" => ev'.id \notin low
       /\ ev'.r.scored = "ok" =>
            IF ev'.r.score >= crawler'.MinScore
            THEN ev'.r.mode = "rich"
            ELSE ev'.r.mode = "none" /\ Has(tweets', ev'.id)]_vars

\* a score equal to the minimum is notified, after another tweet was dropped
C5_Witness ==
  /\ ev.kind = "tweet" /\ ev.r.scored = "ok"
  /\ ev.r.score = crawler.MinScore /\ ev.r.mode = "rich"
  /\ low # {}

\* C6 as stated: after an Analyze error a plain notification is sent and
\* the tweet is in the seen set, whatever the notification returned.
C6_FallbackAlwaysMarksSeen ==
  (ev.kind = "tweet" /\ ev.r.scored = "err") =>
    (ev.r.mode = "plain" /\ Has(tweets, ev.id))

\* C6 amended: after an Analyze error a plain notification is attempted,
\* and the tweet is in the seen set exactly when that notification succeeded.
C6_FallbackMarksSeenOnSuccess ==
  (ev.kind = "tweet" /\ ev.r.scored = "err") =>
    (ev.r.mode = "plain" /\ (Has(tweets, ev.id) <=> ev.r.ok))

C6_Witness ==
  ev.kind = "tweet" /\ ev.r.scored = "err" /\ ev.r.ok /\ Has(tweets, ev.id)

\* C7: without a filter (ai.enabled false, or no API key) every new tweet
\* gets a plain notification attempt and Analyze is not called; with the
\* filter, rich is attempted exactly for score >= MinScore and plain exactly
\* after an Analyze error.
C7_ModeSelection ==
  (ev.kind = "tweet" /\ ~ev.r.has) =>
    IF FilterConfigured
    THEN /\ ev.r.scored # "none"
         /\ ev.r.mode = "rich" <=>
              (ev.r.scored = "ok" /\ ev.r.score >= ConfigLoad(env).MinScore)
         /\ ev.r.mode = "plain" <=> ev.r.scored = "err"
    ELSE ev.r.scored = "none" /\ ev.r.mode = "plain"

\* filtering is enabled but the key is missing: a plain notification
C7_Witness ==
  ev.kind = "tweet" /\ env.enabled /\ ~env.apiKey /\ ev.r.mode = "plain"

\* C8: a failed fetch changes neither the seen set nor the counts and
\* processes no tweet; the next target in order (traders, then keywords) is
\* fetched next, and the cycle reaches its Save only when every target was
\* fetched.
C8_FetchFailureIsolated ==
  [][/\ pc' = "save" => Visited' = AllTargets
     /\ ev'.kind = "fetch_err" =>
          /\ tweets' = tweets
          /\ <<delivered', failed', low'>> = <<delivered, failed, low>>
          /\ <<totalProcessed', totalNotified'>> = <<totalProcessed, totalNotified>>
          /\ IF tgt < NumTargets
             THEN pc' = "fetch" /\ tgt' = tgt + 1
             ELSE pc' = "save"]_vars

\* a new tweet of a later target is processed after an earlier fetch failed
C8_Witness ==
  /\ ev.kind = "tweet" /\ ~ev.r.has
  /\ \E t \in visited.err : t < ev.tgt

\* C9: a cycle makes no Save attempt before all targets are done, and it
\* ends (main is back in its select) after exactly one.
C9_OneSavePerCycle ==
  /\ pc \in {"fetch", "tweets", "save"} => saves = 0
  /\ pc = "save" => Visited = AllTargets
  /\ pc = "idle" => saves = 1 /\ Visited = AllTargets

\* a cycle with a failed fetch and a failed notification ends with its Save
C9_Witness ==
  ev.kind = "run_end" /\ visited.err # {} /\ failed # {} /\ saves = 1

\* C10: a store loaded at startup holds exactly the ids that were added and
\* written by a successful Save: Has is true for those and no other, and
\* Count is their number.
C10_RoundTrip ==
  ev.kind = "boot" =>
    /\ \A id \in IDs : Has(tweets, id) <=> id \in persisted
    /\ Count(tweets) = Cardinality(persisted)

C10_Witness == ev.kind = "boot" /\ persisted = IDs


\* C11: starting on a path where no file exists gives the empty store and no
\* error; starting on a file with malformed content ends the process at
\* startup (fatal), and that process never fetches, scores, delivers or
\* persists: the only step after it is a new start of the program.
C11_StartupLoad ==
  [][/\ (pc = "boot" /\ ev'.kind \in {"boot", "fatal"}) =>
          /\ file.kind = "missing" =>
                ev'.kind = "boot" /\ tweets' = EmptyMap /\ ev'.cnt = 0
          /\ file.kind = "garbage" => ev'.kind = "fatal" /\ pc' = "fatal"
     /\ pc' = "fatal" =>
          /\ visited' = NoneVisited /\ saves' = 0
          /\ delivered' \cup failed' \cup low' = {}
          /\ file' = file
     /\ pc = "fatal" => ev'.kind = "restart"]_vars
C11_Witness == pc = "fatal" /\ file.kind = "garbage" /\ ev.kind = "fatal"

\* C12: a crash at any point during Save leaves a file that the next start
\* of the program loads without error, holding at least every id written by
\* the last successful Save.
C12_SaveCrashTolerant ==
  ev.kind = "crash_save" =>
    LET n == NewSeenTweets(file)
    IN ~n.err /\ persisted \subseteq Keys(n.m)

\* C13: in every store state, one loaded from a file whose entries carry
\* any boolean value included, Has(id) is true exactly when id is a key of
\* the store, and Count is the number of ids for which Has is true.
C13_OnlyKeyPresenceMatters ==
  pc \in {"fetch", "tweets", "save", "idle"} =>
    /\ \A id \in IDs : Has(tweets, id) <=> id \in Keys(tweets)
    /\ Count(tweets) = Cardinality({id \in IDs : Has(tweets, id)})

\* C14: after startup the in-memory seen set only grows: no step of a cycle,
\* no persist (successful or failed) removes an id for which Has was true,
\* and what the shutdown persist writes, when it succeeds, holds every one
\* of them.
AfterStartup == {"fetch", "tweets", "save", "idle"}
C14_SeenSetOnlyGrows ==
  [][/\ (pc \in AfterStartup /\ pc' \in AfterStartup) =>
          /\ \A id \in IDs : Has(tweets, id) => Has(tweets', id)
          /\ Keys(tweets) \subseteq Keys(tweets')
     /\ (ev'.kind = "shutdown" /\ ev'.ok) =>
          \A id \in IDs : Has(tweets, id) => Has(NewSeenTweets(file').m, id)]_vars
C14_Witness ==
  /\ ev.kind = "run_end" /\ ~ev.ok
  /\ saves = 1 /\ cyc.new > 0
  /\ \A id \in IDs : Has(tweets, id)

\* C15: a started process runs exactly one eager cycle before any
\* timer-driven one; a cycle starts only when no cycle is in progress and the
\* one before it has finished, its persist attempt included; a tick that
\* arrives while a cycle runs waits in the ticker's channel and starts
\* nothing until that cycle is over.
CycleStarts == ev'.kind \in {"boot", "tick"}
C15_CyclesNeverOverlap ==
  [][/\ CycleStarts => ~InCycle /\ InCycle' /\ tgt' = 1 /\ saves' = 0
     /\ ev'.kind = "boot" => pc = "boot" /\ ctx' = "background"
     /\ ev'.kind = "tick" =>
          /\ pc = "idle" /\ saves = 1
          /\ ctx' = "timed"
     /\ (InCycle /\ InCycle') => ctx' \in {ctx, "expired"} /\ ~CycleStarts
     /\ (pc = "boot" /\ pc' \in AfterStartup) => ev'.kind = "boot"
     /\ (pc = "idle" /\ InCycle') => ev'.kind = "tick"]_vars
C15_Witness == InCycle /\ ctx = "timed" /\ tickPending /\ pc = "tweets"

\* C16: a process that an interrupt signal has ended made exactly one final
\* persist attempt and then exited (whatever the result of that persist).
C16_SignalEndsWithOnePersist ==
  ev.kind \in {"sigdefault", "shutdown"} => pc = "exited" /\ ev.att = 1

\* C17: a Save that fails at the end of a cycle does not end the process and
\* leaves the in-memory set as it was: the process goes on to wait for the
\* next tick, an id marked seen in this process is skipped whether or not it
\* was ever persisted, and a Save that succeeds writes the full in-memory
\* set, the ids that a failed Save did not persist included.
C17_FailedSaveNonFatal ==
  [][/\ (ev'.kind = "run_end" /\ ~ev'.ok) => tweets' = tweets /\ pc' = "idle"
     /\ (ev'.kind = "tweet" /\ ev'.id \in delivered \cup low) => ev'.r = Skipped
     /\ (ev'.kind = "run_end" /\ ev'.ok) =>
          LET n == NewSeenTweets(file')
          IN /\ ~n.err /\ n.m = tweets
             /\ delivered \cup low \subseteq Keys(n.m)]_vars
C17_Witness ==
  /\ ev.kind = "tweet" /\ ev.r = Skipped
  /\ ctx = "timed" /\ file.kind = "garbage"
  /\ ev.id \in delivered \ persisted

\* C18: once startup has succeeded, no step of a cycle (fetch, evaluation,
\* delivery, the Save at its end) ends the process, whatever error it meets:
\* a started process ends only by the shutdown signal or by being killed
\* from outside, and every cycle runs to its end.
C18_OnlySignalEndsProcess ==
  [][(pc \in AfterStartup /\ pc' \notin AfterStartup) =>
       ev'.kind \in {"shutdown", "sigdefault", "crash", "crash_save"}]_vars

\* C19: the counts a cycle reports: processed is the number of fetched posts
\* that were not in the seen set when they were checked, notified is the
\* number of successful deliveries. With no filter and no failed delivery
\* the two are equal; the first cycle on a fresh store reports as many as it
\* delivered distinct posts (2 and 2 for the posts 1 and 2) and its Save,
\* when it succeeds, writes exactly those ids; a cycle that fetches only
\* posts already seen reports 0 and 0.
C19_CycleCounts ==
  [][ev'.kind = "run_end" =>
       /\ ev'.np = cyc.new /\ ev'.nn = cyc.ok
       /\ ev'.nn <= ev'.np
       /\ (~FilterConfigured /\ failed = {}) =>
            /\ ev'.nn = ev'.np
            /\ (ctx = "background" /\ file.kind = "missing") =>
                 /\ ev'.np = Cardinality(delivered)
                 /\ ev'.ok => /\ file' = Marshal(tweets)
                              /\ Keys(NewSeenTweets(file').m) = delivered
            /\ (ctx # "background" /\ delivered \subseteq persisted) =>
                 ev'.np = 0 /\ ev'.nn = 0]_vars
C19_Witness ==
  /\ ev.kind = "run_end" /\ ev.ok /\ ~FilterConfigured
  /\ ev.np = 2 /\ ev.nn = 2 /\ cyc.new = 2
  /\ persisted = {1, 2} /\ delivered = {1, 2} /\ failed = {}
  /\ Keys(NewSeenTweets(file).m) = {1, 2}

\* C20: whatever min_score the configuration file gives, a post the filter
\* scored gets a delivery attempt exactly when its score is at least that
\* configured value.
C20_GateUsesConfiguredMinScore ==
  (ev.kind = "tweet" /\ ev.r.scored = "ok") =>
    (Attempted(ev) <=> ev.r.score >= env.min_score)

\* C21: under any interleaving of Has, Add, Count and Save calls from several
\* threads, a thread that is inside Add (between taking the lock and the
\* return) is the only thread inside any method of the store, and what a
\* call of Has returns is the membership of its id at some point between the
\* call and the return.
C21_StoreSafeUnderConcurrency ==
  /\ \A t \in Threads, u \in Threads :
       (t # u /\ HoldsWrite(t)) => ~Holds(u)
  /\ \A t \in Threads :
       (thr[t].op = "Has" /\ thr[t].pc = "accessed") =>
         thr[t].res[1] \in thr[t].vals
C21_Witness ==
  \E t \in Threads, u \in Threads :
    /\ thr[t].op = "Has" /\ thr[t].pc = "accessed" /\ thr[t].res = <<TRUE>>
    /\ thr[t].vals = {FALSE, TRUE}
    /\ thr[u].op = "Add" /\ thr[u].pc = "called" /\ thr[u].id # thr[t].id

\* C22: the message built for an analysis has the icon and color fixed by
\* its urgency: critical red, high orange, normal green, low gray, and any
\* other value, the empty string included, the icon and color of normal;
\* its sentiment label is the fixed one of bullish, bearish or neutral, and
\* the unknown label for any other value.
C22_UrgencyAndSentimentMaps ==
  ev.kind = "message" =>
    /\ ev.urgency = "critical" => ev.color = "#FF0000" /\ ev.emoji = ":rotating_light:"
    /\ ev.urgency = "high" => ev.color = "#FF9900" /\ ev.emoji = ":warning:"
    /\ ev.urgency = "normal" => ev.color = "#36A64F" /\ ev.emoji = ":bulb:"
    /\ ev.urgency = "low" => ev.color = "#808080" /\ ev.emoji = ":information_source:"
    /\ ev.urgency \notin {"critical", "high", "normal", "low"} =>
         /\ ev.color = getColorByUrgency("normal")
         /\ ev.emoji = getEmojiByUrgency("normal")
    /\ ev.sentiment = "bullish" => ev.sentimentEmoji = ":chart_up: bullish"
    /\ ev.sentiment = "bearish" => ev.sentimentEmoji = ":chart_down: bearish"
    /\ ev.sentiment = "neutral" => ev.sentimentEmoji = ":arrow_right: neutral"
    /\ ev.sentiment \notin {"bullish", "bearish", "neutral"} =>
         ev.sentimentEmoji = ":question: unknown"
C22_Witness ==
  /\ ev.kind = "message" /\ ev.urgency = "" /\ ev.sentiment = "mixed"
  /\ ev.color = "#36A64F" /\ ev.sentimentEmoji = ":question: unknown"

\* C23: within the post loop of one target, the 500 ms delay is executed
\* between any two successive delivery attempts, whether the earlier one
\* succeeded or failed.
C23_DelayBetweenAttempts ==
  [][(ev'.kind = "tweet" /\ Attempted(ev')) => ~cyc.unslept]_vars

\* C24: every cycle that runs, the eager one at startup as well as each
\* timer-driven one, runs under a context with a deadline (one that is still
\* to come or has expired), so that its collaborator calls are cancelled
\* once the budget is spent.
C24_EveryCycleHasDeadline ==
  InCycle => ctx \in {"timed", "expired"}

\* C25: once the timeout of a cycle has expired, partial results stand: the
\* ids marked seen before the expiry stay in the seen set, every later
\* fetch, scoring and delivery call fails and no later pass of a post loop
\* marks an id seen; the cycle still ends (each of its steps is enabled and
\* moves it forward through the targets), and it ends with its one persist
\* attempt, which writes the set as it was at the expiry when it succeeds.
CyclePosition == tgt * (MaxFetch + 2) + pos
CycleStep == GetUserTweetsErr \/ SearchTweetsErr \/ TraderTweet \/ KeywordTweet \/ RunSave
C25_PartialResultsStand ==
  [][/\ ev'.kind = "deadline" => tweets' = tweets /\ pc' = pc
     /\ (InCycle /\ ctx = "expired") =>
          /\ ENABLED CycleStep
          /\ pc' \in AfterStartup => tweets' = tweets
          /\ ev'.kind # "fetch_ok"
          /\ ev'.kind = "tweet" =>
               ev'.r.scored # "ok" /\ ~ev'.r.ok /\ ~ev'.r.add
          /\ InCycle' => ctx' = "expired"
          /\ (InCycle' /\ ev'.kind \in {"fetch_err", "tweet"}) =>
               CyclePosition' > CyclePosition
          /\ (pc = "save" /\ pc' = "idle") =>
               /\ ev'.kind = "run_end" /\ saves' = 1
               /\ ev'.ok => file' = Marshal(tweets)]_vars
C25_Witness ==
  /\ pc = "save" /\ ctx = "expired"
  /\ ev.kind = "tweet" /\ Attempted(ev) /\ ~ev.r.ok /\ ~Has(tweets, ev.id)
  /\ cyc.ok > 0

\* C26: at every point of a run, each id for which the in-memory store
\* answers seen was loaded from the file at startup (persisted holds those,
\* and later only ids of the two other kinds), or its post was delivered
\* successfully in this process, or its post was scored below the minimum
\* in this process; a post whose delivery attempts have all failed, and that
\* is of none of these kinds, is not marked seen.
C26_NoSilentLoss ==
  pc \in AfterStartup =>
    /\ \A id \in IDs :
         Has(tweets, id) => id \in persisted \cup delivered \cup low
    /\ \A id \in failed \ (persisted \cup delivered \cup low) : ~Has(tweets, id)
C26_Witness ==
  /\ pc = "idle"
  /\ persisted \ (delivered \cup low) # {}
  /\ failed \ (persisted \cup delivered \cup low) # {}
  /\ \E id \in IDs : Has(tweets, id)

\* C27: the file never runs ahead of memory: while a process runs and the
\* file holds a complete object, the ids in the file are ids of the
\* in-memory set; right after a successful Save (at the end of a cycle or at
\* shutdown) the file is the marshalled in-memory set, with exactly its ids.
FileKeys(f) == {f.entries[i][1] : i \in 1..Len(f.entries)}
C27_FileNeverAheadOfMemory ==
  [][/\ (pc' \in AfterStartup /\ file'.kind = "object") =>
          FileKeys(file') \subseteq Keys(tweets')
     /\ (ev'.kind \in {"run_end", "shutdown"} /\ ev'.ok) =>
          /\ file' = Marshal(tweets)
          /\ file'.kind = "object" /\ FileKeys(file') = Keys(tweets)]_vars
C27_Witness ==
  /\ pc = "tweets" /\ ctx = "timed" /\ file.kind = "object"
  /\ FileKeys(file) # {}
  /\ FileKeys(file) # Keys(tweets)

\* C28: a shutdown signal that arrives while a cycle is in progress, the
\* eager one at startup or a timer-driven one, leaves the cycle running and
\* stays pending; it is handled only when no cycle is in progress and the
\* last one has made its persist attempt, and the shutdown persist writes
\* the in-memory set as that cycle left it.
C28_SignalNeverInterruptsCycle ==
  [][/\ (InCycle /\ ev'.kind \in {"signal", "sigdefault"}) =>
          pc' = pc /\ tweets' = tweets /\ sigPending'
     /\ ev'.kind = "shutdown" =>
          /\ pc = "idle" /\ saves = 1
          /\ ev'.ok => file' = Marshal(tweets)]_vars

\* C29: on a store that NewSeenTweets returned without error, whatever
\* content of an existing file Load accepted (null and the empty object
\* included), every Add succeeds and makes Has true for the id it added.
C29_LoadedStoreUsable ==
  [][(ev'.kind \in {"tweet", "panic"} /\ ev'.r.add) =>
       ev'.kind = "tweet" /\ Has(tweets', ev'.id)]_vars

====
